---- MODULE Spec2Model ----
(***************************************************************************)
(* Slot allocation and reminder scheduling of the clinic appointment       *)
(* assistant: CalendarIntegration (slot grid), DatabaseManager and         *)
(* EnhancedMedicalAgent (booking), AutomatedReminderSystem (reminder       *)
(* scheduling and the two dispatcher sweeps).                              *)
(*                                                                         *)
(* Representation.  A date string 'YYYY-MM-DD' is represented by its day   *)
(* ordinal (day 0 is a Monday): strptime/strftime with '%Y-%m-%d' is a     *)
(* bijection between the two and the SQL string comparison of such dates   *)
(* is the comparison of the ordinals.  A timestamp 'YYYY-MM-DD HH:MM:SS'   *)
(* is represented by its number of seconds since day 0, 00:00:00.  A time  *)
(* of day kept in a TEXT column or passed as a call parameter is a string  *)
(* and is formatted and parsed as the code does.                           *)
(***************************************************************************)
EXTENDS Integers, Sequences, FiniteSets, TLC

\* ------------------------------------------------------------- bounds
MaxBookings == 2
MaxScheduleCalls == 2
MaxSweeps == 2
MaxTicks == 1
MaxSlotNum == 2
MaxDaysAhead == 3
MaxUuid == 2
MaxCalendarRows == 2

\* ------------------------------------------------- program constants
\* CalendarIntegration.__init__: working hours in minutes of the day
start_time == 540
end_time == 1020
lunch_start == 720
lunch_end == 780
slot_duration == 30
buffer_time == 15
working_days == {0, 1, 2, 3, 4}
\* self.working_hours with the fault of an empty lunch window
working_hours_no_lunch ==
    [start_time |-> start_time, end_time |-> end_time,
     lunch_start |-> lunch_start, lunch_end |-> lunch_start]

\* self.working_hours with the fault of a lunch window that starts a quarter
\* of an hour late
working_hours_late_lunch ==
    [start_time |-> start_time, end_time |-> end_time,
     lunch_start |-> lunch_start + buffer_time, lunch_end |-> lunch_end]

\* self.working_hours as __init__ sets it
working_hours ==
    [start_time |-> start_time, end_time |-> end_time,
     lunch_start |-> lunch_start, lunch_end |-> lunch_end]
\* EnhancedMedicalAgent.get_available_slots: horizon and cut of the listing
days_ahead_default == 14
max_listed_slots == 20
\* AutomatedReminderSystem.schedule_appointment_reminders: offsets in seconds
initial_offset_seconds == 5
followup_1_offset_seconds == 15
followup_2_offset_seconds == 25

\* ------------------------------------------------------ units, inputs
HourSeconds == 60 * 60
DaySeconds == 24 * HourSeconds
\* the clock when the model starts: Monday of the second week, 10:00:00
NowInit == 7 * DaySeconds + 10 * HourSeconds
\* one advance of the clock: past the three fire-times of a scheduling call
TickSeconds == initial_offset_seconds + followup_2_offset_seconds

Doctors == {"D1", "D2"}
Sessions == {"s1"}
\* conversation_context['patient_info'] of each chat session
SessionPatient == [s \in Sessions |-> IF s = "s1" THEN "P1" ELSE "P2"]
SessionIsNew == [s \in Sessions |-> s = "s1"]
\* parameters of the direct booking calls
ApiPatient == "P3"
ApiDates == {NowInit \div DaySeconds}
ApiTimes == {"09:00", "noon"}

\* the times of day the Streamlit page's confirmation handler is given: a
\* listed slot and a time inside the lunch window
ConfirmationTimes == {"09:00", "12:15"}
\* the appointment the sweeps work on starts three hours after NowInit
SweepApiTime == "13:00"
\* generate_available_slots: the clocks of the calls (Monday and Tuesday,
\* 10:00), the start dates (the Sunday before, that Monday, the Friday and the
\* Saturday after it), the horizons and the states of the uuid source
CalendarNows == {NowInit, NowInit + DaySeconds}
CalendarStartDates ==
    {NowInit \div DaySeconds - 1, NowInit \div DaySeconds,
     NowInit \div DaySeconds + 4, NowInit \div DaySeconds + 5}
CalendarDaysAhead == 0..MaxDaysAhead
Uuids == 1..MaxUuid
\* the values of self.working_hours: the one of __init__, a lunch window
\* equal to the working day, a lunch window larger than the working day
WorkingHoursProfiles ==
    {working_hours,
     [working_hours EXCEPT !.lunch_start = start_time, !.lunch_end = end_time],
     [working_hours EXCEPT !.lunch_start = start_time - 60,
                           !.lunch_end = end_time + 60]}
ReminderTypes == <<"initial", "follow_up_1", "follow_up_2">>
Sweepers == {"periodic", "manual"}

\* ----------------------------------------------------------- helpers
Range(s) == {s[i] : i \in 1..Len(s)}

Take(s, n) == IF Len(s) <= n THEN s ELSE SubSeq(s, 1, n)

Pad2(n) == IF n < 10 THEN "0" \o ToString(n) ELSE ToString(n)

\* strftime('%H:%M') of a time of day given in minutes
strftime_HM(m) == Pad2(m \div 60) \o ":" \o Pad2(m % 60)

\* strftime('%I:%M %p') of a time of day given in minutes
strftime_IMp(m) ==
    LET h == m \div 60
        h12 == IF h % 12 = 0 THEN 12 ELSE h % 12
    IN Pad2(h12) \o ":" \o Pad2(m % 60) \o (IF h < 12 THEN " AM" ELSE " PM")

\* the times of day the parsers are tried on (quarter hours)
ParseMinutes == {m \in 0..1439 : m % 15 = 0}
Table_HM == [m \in ParseMinutes |-> strftime_HM(m)]
Table_IMp == [m \in ParseMinutes |-> strftime_IMp(m)]

\* datetime.strptime(time_str, '%H:%M'): minutes, or -1 for ValueError
strptime_HM(s) ==
    IF \E m \in ParseMinutes : Table_HM[m] = s
    THEN CHOOSE m \in ParseMinutes : Table_HM[m] = s
    ELSE -1

\* datetime.strptime(time_str, '%I:%M %p'): minutes, or -1 for ValueError
strptime_IMp(s) ==
    IF \E m \in ParseMinutes : Table_IMp[m] = s
    THEN CHOOSE m \in ParseMinutes : Table_IMp[m] = s
    ELSE -1

\* weekday() with the fault of counting from Saturday
weekday_shifted(d) == (d + 2) % 7

\* datetime.weekday() of a day ordinal: 0 is Monday
weekday(d) == d % 7

\* ------------------------------------------------------------- state
VARIABLES
    now,                  \* datetime.now(), seconds
    appointments,         \* table appointments, appointment_id = position
    doctor_schedules,     \* table doctor_schedules, schedule_id = position
    reminders,            \* table reminders, reminder_id = position
    conversation_context, \* per chat session
    sweep,                \* per dispatcher: the sweep in progress
    sweeps,               \* sweeps started so far
    outbox,               \* calls made to the Notifier
    bookings,             \* booking calls made so far
    lastBooking,          \* history: the last booking call and its outcome
    scheduleCalls,        \* calls that scheduled reminders so far
    calendar,             \* the CalendarIntegration object and its latest call
    cancel_warnings       \* appointments the page has reported as cancelled

vars == <<now, appointments, doctor_schedules, reminders, conversation_context,
          sweep, sweeps, outbox, bookings, lastBooking, scheduleCalls,
          calendar, cancel_warnings>>

today == now \div DaySeconds

\* --------------------------------------------------- slot grid generator
\* _generate_day_slots: the while loop.  hours: self.working_hours.  The
\* slot_id of a record is a uuid4 and is attached by with_slot_ids; datetime,
\* day_name and formatted_date are functions of date and time and are left out
RECURSIVE day_loop(_, _, _, _)
day_loop(hours, current_time, date_str, booked_slots) ==
    IF current_time + slot_duration <= hours.end_time
    THEN IF hours.lunch_start <= current_time /\ current_time < hours.lunch_end
         THEN day_loop(hours, hours.lunch_end, date_str, booked_slots)
         ELSE LET time_str == strftime_HM(current_time)
                  slot_key == <<date_str, time_str>>
                  rest == day_loop(hours,
                                   current_time + slot_duration + buffer_time,
                                   date_str, booked_slots)
              IN IF slot_key \notin booked_slots
                 THEN <<[date |-> date_str, time |-> time_str,
                         formatted_time |-> strftime_IMp(current_time),
                         available |-> TRUE]>> \o rest
                 ELSE rest
    ELSE <<>>

\* _generate_day_slots with the fault of starting one slot before start_time
_generate_day_slots_early(hours, date_str, booked_slots) ==
    day_loop(hours, hours.start_time - slot_duration, date_str, booked_slots)

\* _generate_day_slots with the fault of going through the day twice
_generate_day_slots_twice(hours, date_str, booked_slots) ==
    day_loop(hours, hours.start_time, date_str, booked_slots)
        \o day_loop(hours, hours.start_time, date_str, booked_slots)

_generate_day_slots(hours, date_str, booked_slots) ==
    day_loop(hours, hours.start_time, date_str, booked_slots)

\* existing_appointments with the fault "appointment_date > ?": the bookings
\* of the start date itself are not read
existing_appointments_after(appts, doctor_id, start_date) ==
    {<<appts[i].appointment_date, appts[i].appointment_time>> :
        i \in {j \in 1..Len(appts) : /\ appts[j].doctor_id = doctor_id
                                     /\ appts[j].appointment_date > start_date}}

\* SELECT appointment_date, appointment_time FROM appointments
\*  WHERE doctor_id = ? AND appointment_date >= ?
existing_appointments(appts, doctor_id, start_date) ==
    {<<appts[i].appointment_date, appts[i].appointment_time>> :
        i \in {j \in 1..Len(appts) : /\ appts[j].doctor_id = doctor_id
                                     /\ appts[j].appointment_date >= start_date}}

RECURSIVE days_loop(_, _, _, _, _, _)
days_loop(hours, day_offset, days_ahead, start_dt, booked_slots, today_date) ==
    IF day_offset >= days_ahead
    THEN <<>>
    ELSE LET current_date == start_dt + day_offset
             rest == days_loop(hours, day_offset + 1, days_ahead, start_dt,
                               booked_slots, today_date)
         IN IF weekday(current_date) \notin working_days
            THEN rest
            ELSE IF current_date < today_date
                 THEN rest
                 ELSE _generate_day_slots(hours, current_date, booked_slots)
                          \o rest

generate_available_slots(hours, appts, today_date, doctor_id, start_date, days_ahead) ==
    days_loop(hours, 0, days_ahead, start_date,
              existing_appointments(appts, doctor_id, start_date), today_date)

\* 'slot_id': str(uuid.uuid4()).  uuid: the state of the random source at the
\* call; the i-th identifier drawn from it is <<uuid, i>>
with_slot_ids(slots, uuid) ==
    [i \in 1..Len(slots) |->
        [date |-> slots[i].date, time |-> slots[i].time,
         formatted_time |-> slots[i].formatted_time,
         available |-> slots[i].available, slot_id |-> <<uuid, i>>]]

\* EnhancedMedicalAgent.get_available_slots(doctor_id): the next 14 days, cut to 20
get_available_slots(appts, today_date, doctor_id) ==
    Take(generate_available_slots(working_hours, appts, today_date, doctor_id,
                                  today_date, days_ahead_default),
         max_listed_slots)

\* --------------------------------------------------------------- booking
\* INSERT INTO appointments (...) VALUES (..., 'scheduled')
appointment_row(patient_id, doctor_id, date, time, duration, appointment_type) ==
    [patient_id |-> patient_id, doctor_id |-> doctor_id,
     appointment_date |-> date, appointment_time |-> time,
     duration |-> duration, appointment_type |-> appointment_type,
     status |-> "scheduled"]

\* UPDATE doctor_schedules SET is_available = 0, appointment_type = 'Booked'
\*  WHERE doctor_id = ? AND date = ? AND time = ?
mark_slot_unavailable(schedules, doctor_id, date, time) ==
    [i \in 1..Len(schedules) |->
        IF /\ schedules[i].doctor_id = doctor_id
           /\ schedules[i].date = date
           /\ schedules[i].time = time
        THEN [schedules[i] EXCEPT !.is_available = FALSE,
                                  !.appointment_type = "Booked"]
        ELSE schedules[i]]

\* book_calendly_slot with the fault of an INSERT that succeeds: a second row
\* for the slot, with status confirmed
book_calendly_slot_inserted(appts, slot_data) ==
    Append(appts, [slot_data EXCEPT !.status = "confirmed"])

\* CalendarIntegration.book_calendly_slot, run by book_appointment_slot after
\* its commit.  Its INSERT names the columns duration_minutes and
\* booking_method, which the appointments table of
\* DatabaseManager.init_database does not have: sqlite3 raises, the method
\* returns {'success': False} and the table is as it was.
book_calendly_slot(appts, slot_data) == appts

\* The transaction shared by DatabaseManager.book_appointment and
\* EnhancedMedicalAgent.book_appointment_slot: insert, update, commit; an
\* exception of the database (db_error) rolls both back.  via: the entry
\* point; all but DatabaseManager.book_appointment go through
\* book_appointment_slot, which then runs book_calendly_slot.
book_transaction(row, db_error, via) ==
    /\ bookings' = bookings + 1
    /\ lastBooking' = [via |-> via, doctor_id |-> row.doctor_id,
                       date |-> row.appointment_date,
                       time |-> row.appointment_time, ok |-> ~db_error,
                       appointment_id |-> IF db_error THEN 0
                                          ELSE Len(appointments) + 1]
    /\ IF db_error
       THEN UNCHANGED <<appointments, doctor_schedules>>
       ELSE /\ appointments' = IF via = "book_appointment"
                               THEN Append(appointments, row)
                               ELSE book_calendly_slot(Append(appointments, row), row)
            /\ doctor_schedules' = mark_slot_unavailable(doctor_schedules,
                   row.doctor_id, row.appointment_date, row.appointment_time)

\* duration and appointment_type chosen by book_appointment_slot
slot_duration_for(is_new_patient) == IF is_new_patient THEN 60 ELSE 30
slot_type_for(is_new_patient) == IF is_new_patient THEN "New Patient" ELSE "Follow-up"

\* ------------------------------------------------- reminder scheduling
\* the appointment's datetime in seconds as schedule_appointment_reminders
\* parses it: 12-hour format first, then 24-hour; -1 when both raise
parse_appointment_datetime(date, time) ==
    IF strptime_IMp(time) >= 0
    THEN date * DaySeconds + strptime_IMp(time) * 60
    ELSE IF strptime_HM(time) >= 0
         THEN date * DaySeconds + strptime_HM(time) * 60
         ELSE -1

reminder_row(appointment_id, patient_id, reminder_type, method, scheduled_time) ==
    [appointment_id |-> appointment_id, patient_id |-> patient_id,
     reminder_type |-> reminder_type, reminder_method |-> method,
     scheduled_time |-> scheduled_time, sent_time |-> -1,
     status |-> "pending", response |-> ""]

\* AutomatedReminderSystem.schedule_appointment_reminders: the three fire-times
reminder_times(current_time, appointment_datetime) ==
    <<current_time + initial_offset_seconds,
      current_time + followup_1_offset_seconds,
      current_time + followup_2_offset_seconds>>

\* EnhancedMedicalAgent._schedule_appointment_reminders_internal: the three fire-times
reminder_times_internal(appointment_datetime) ==
    <<appointment_datetime - 3 * DaySeconds,
      appointment_datetime - DaySeconds,
      appointment_datetime - 2 * HourSeconds>>

reminder_rows(appointment_id, patient_id, times, method) ==
    [k \in 1..3 |-> reminder_row(appointment_id, patient_id, ReminderTypes[k],
                                 method, times[k])]

\* persisted_reminders with the fault of a commit after every INSERT: the
\* rows inserted before the failing one stay
persisted_prefix(rows, fail_at) ==
    IF fail_at = 0 THEN rows ELSE SubSeq(rows, 1, fail_at - 1)

\* The INSERT loop in one transaction.  fail_at = 0: the three inserts and the
\* commit succeed.  fail_at = k > 0: the k-th execute raises; the commit is not
\* reached, and the rows inserted before it go with the connection (the
\* explicit rollback of the internal variant, the dropped connection of
\* schedule_appointment_reminders).
persisted_reminders(rows, fail_at) ==
    IF fail_at = 0 THEN rows ELSE <<>>

\* AutomatedReminderSystem.schedule_appointment_reminders(appointment_data)
schedule_appointment_reminders(appointment_id, patient_id, date, time, fail_at) ==
    /\ scheduleCalls' = scheduleCalls + 1
    /\ IF parse_appointment_datetime(date, time) < 0
       THEN UNCHANGED reminders
       ELSE reminders' = reminders \o persisted_reminders(
                reminder_rows(appointment_id, patient_id,
                    reminder_times(now, parse_appointment_datetime(date, time)),
                    "email"),
                fail_at)

\* EnhancedMedicalAgent._schedule_appointment_reminders_internal(...); its
\* strptime('%H:%M') is outside the try: a ValueError leaves the tables alone
_schedule_appointment_reminders_internal(appointment_id, patient_id, date, time, fail_at) ==
    /\ scheduleCalls' = scheduleCalls + 1
    /\ IF strptime_HM(time) < 0
       THEN UNCHANGED reminders
       ELSE reminders' = reminders \o persisted_reminders(
                reminder_rows(appointment_id, patient_id,
                    reminder_times_internal(date * DaySeconds
                                            + strptime_HM(time) * 60),
                    "both"),
                fail_at)

\* ------------------------------------------------------ dispatcher sweeps
\* SELECT ... FROM reminders r JOIN patients JOIN appointments JOIN doctors
\*  WHERE r.status = 'pending': the ids of the rows selected.  Every
\*  appointment of the model has its patient and its doctor.
pending_reminders(rems, appts) ==
    {i \in 1..Len(rems) : /\ rems[i].status = "pending"
                          /\ rems[i].appointment_id \in 1..Len(appts)}

\* ORDER BY r.scheduled_time (rows of equal time in rowid order)
RECURSIVE order_by_scheduled_time(_, _)
order_by_scheduled_time(rems, ids) ==
    IF ids = {}
    THEN <<>>
    ELSE LET first == CHOOSE i \in ids : \A j \in ids :
                          \/ rems[i].scheduled_time < rems[j].scheduled_time
                          \/ /\ rems[i].scheduled_time = rems[j].scheduled_time
                             /\ i <= j
         IN <<first>> \o order_by_scheduled_time(rems, ids \ {first})

\* the rows both sweeps select at current_time
select_pending(rems, appts, current_time) ==
    order_by_scheduled_time(rems, pending_reminders(rems, appts))

\* mark_reminder_sent with the fault of an UPDATE that is never committed:
\* the row stays pending
mark_reminder_uncommitted(rems, reminder_id, current_time) == rems

\* UPDATE reminders SET status = 'sent', sent_time = ? WHERE reminder_id = ?
mark_reminder_sent(rems, reminder_id, current_time) ==
    [rems EXCEPT ![reminder_id].status = "sent",
                 ![reminder_id].sent_time = current_time]

\* CommunicationManager.send_email and send_sms return a pair (ok, message);
\* the truth value Python gives a pair, whatever ok is
truth_of_result(ok) == TRUE

\* the Notifier calls check_and_send_reminders makes for one reminder type;
\* email_configured: test_email_config() of send_initial_reminder
channels_periodic(reminder_type, email_configured) ==
    IF reminder_type = "initial"
    THEN IF email_configured THEN {"email"} ELSE {}
    ELSE IF reminder_type = "follow_up_1"
         THEN {"email"}
         ELSE IF reminder_type = "follow_up_2" THEN {"email", "sms"} ELSE {}

\* the Notifier calls CommunicationManager.send_reminder makes
channels_manual == {"email", "sms"}

\* email_ok, sms_ok: the first component of the pair send_email / send_sms
\* returns, TRUE when the provider accepted the message, FALSE when the call
\* inside raised.
\* Whether the delivery of check_and_send_reminders succeeded: the value
\* send_initial_reminder / send_follow_up_*_reminder hand back is the pair of
\* send_email, or False when test_email_config() fails; the result of
\* send_sms_reminder is dropped
delivery_periodic(reminder_type, email_configured, email_ok) ==
    IF reminder_type = "initial" /\ ~email_configured THEN FALSE ELSE email_ok

\* whether the delivery of send_reminder succeeded on a channel
delivery_manual(email_ok, sms_ok) == email_ok \/ sms_ok

other(s) == IF s = "periodic" THEN "manual" ELSE "periodic"

\* selected: the rows of the SELECT; queue: those the loop has not reached;
\* success: whether the latest delivery of the loop succeeded;
\* run: the number of the sweep; during: the number of the other dispatcher's
\* sweep in progress when this one selected its rows, 0 if none
idle_sweep == [pc |-> "idle", selected |-> <<>>, queue |-> <<>>, run |-> 0,
               during |-> 0, marked |-> {}, success |-> TRUE]

\* the manual sweep holds the write lock of the database from its first
\* UPDATE to its commit; other writers wait for it
write_locked == sweep["manual"].marked # {}

\* the rows of the table had the manual sweep dropped its transaction
commit_skipped(rems, marked) == rems

\* the rows of the table after the commit of the manual sweep's UPDATEs
commit_marked(rems, marked) ==
    [i \in 1..Len(rems) |->
        IF \E m \in marked : m[1] = i
        THEN [rems[i] EXCEPT !.status = "sent",
                             !.sent_time = (CHOOSE m \in marked : m[1] = i)[2]]
        ELSE rems[i]]

\* ----------------------------------------------------------------- Init
\* no call of generate_available_slots has been made on the object
no_call == [doctor_id |-> "", start_date |-> 0, days_ahead |-> -1]

\* CalendarIntegration(): working_hours; call, slots: the arguments and the
\* return value of the latest generate_available_slots
new_calendar(hours) == [working_hours |-> hours, call |-> no_call, slots |-> <<>>]

seed_schedule(doctor_id, date, time) ==
    [doctor_id |-> doctor_id, date |-> date, time |-> time,
     is_available |-> TRUE, appointment_type |-> "Available"]

no_booking == [via |-> "none", doctor_id |-> "", date |-> 0, time |-> "",
               ok |-> FALSE, appointment_id |-> 0]

Init ==
    /\ now = NowInit
    /\ appointments = <<>>
    /\ doctor_schedules = <<seed_schedule("D1", NowInit \div DaySeconds, "09:00"),
                            seed_schedule("D1", NowInit \div DaySeconds, "10:30"),
                            seed_schedule("D2", NowInit \div DaySeconds, "09:00")>>
    /\ reminders = <<>>
    /\ conversation_context =
           [s \in Sessions |-> [step |-> "greeting", doctor_id |-> "",
                                available_slots |-> <<>>, appointment_id |-> 0,
                                selected_slot |-> 0, reply |-> "none"]]
    /\ sweep = [s \in Sweepers |-> idle_sweep]
    /\ sweeps = 0
    /\ outbox = {}
    /\ bookings = 0
    /\ lastBooking = no_booking
    /\ scheduleCalls = 0
    /\ calendar = new_calendar(working_hours)
    /\ cancel_warnings = {}

\* the appointments a table may hold when generate_available_slots is called
CalendarRows ==
    {appointment_row(ApiPatient, r[1], r[2], r[3], 30, "Follow-up") :
        r \in {<<"D1", NowInit \div DaySeconds, "09:00">>,
               <<"D1", NowInit \div DaySeconds + 1, "13:00">>,
               <<"D2", NowInit \div DaySeconds, "09:00">>}}

CalendarTables ==
    {t \in UNION {[1..n -> CalendarRows] : n \in 0..MaxCalendarRows} :
        \A i, j \in 1..Len(t) : t[i] = t[j] => i = j}

\* the states generate_available_slots is called in: a table of appointments,
\* a clock, a CalendarIntegration object
InitCalendar ==
    /\ now \in CalendarNows
    /\ appointments \in CalendarTables
    /\ doctor_schedules = <<>>
    /\ reminders = <<>>
    /\ conversation_context =
           [s \in Sessions |-> [step |-> "greeting", doctor_id |-> "",
                                available_slots |-> <<>>, appointment_id |-> 0,
                                selected_slot |-> 0, reply |-> "none"]]
    /\ sweep = [s \in Sweepers |-> idle_sweep]
    /\ sweeps = 0
    /\ outbox = {}
    /\ bookings = 0
    /\ lastBooking = no_booking
    /\ scheduleCalls = 0
    /\ calendar \in {new_calendar(h) : h \in WorkingHoursProfiles}
    /\ cancel_warnings = {}

\* -------------------------------------------------------------- actions
\* the clock advances
Tick ==
    /\ now < NowInit + MaxTicks * TickSeconds
    /\ now' = now + TickSeconds
    /\ UNCHANGED <<cancel_warnings, calendar, appointments, doctor_schedules, reminders,
                   conversation_context, sweep, sweeps, outbox, bookings,
                   lastBooking, scheduleCalls>>

\* chat: the user selects a doctor, get_available_slots(doctor_id) is stored
\* in conversation_context['selected_doctor'] and slot selection begins
ChatListSlots(s, doctor_id) ==
    /\ conversation_context[s].step \in {"greeting", "showing_slots"}
    /\ conversation_context' = [conversation_context EXCEPT
           ![s].step = "showing_slots",
           ![s].doctor_id = doctor_id,
           ![s].available_slots = get_available_slots(appointments, today, doctor_id)]
    /\ UNCHANGED <<cancel_warnings, calendar, now, appointments, doctor_schedules, reminders, sweep,
                   sweeps, outbox, bookings, lastBooking, scheduleCalls>>

\* chat: _handle_slot_selection up to the return of book_appointment_slot
ChatBook(s, slot_num, db_error) ==
    LET ctx == conversation_context[s]
        slot == ctx.available_slots[slot_num]
    IN /\ ctx.step = "showing_slots"
       /\ slot_num \in 1..Len(ctx.available_slots)
       /\ bookings < MaxBookings
       /\ ~write_locked
       /\ book_transaction(
              appointment_row(SessionPatient[s], ctx.doctor_id, slot.date,
                              slot.time, slot_duration_for(SessionIsNew[s]),
                              slot_type_for(SessionIsNew[s])),
              db_error, "chat")
       /\ conversation_context' = [conversation_context EXCEPT
              ![s].step = IF db_error THEN "showing_slots" ELSE "booked",
              ![s].selected_slot = slot_num,
              ![s].appointment_id = IF db_error THEN 0 ELSE Len(appointments) + 1,
              ![s].reply = IF db_error THEN "error" ELSE "none"]
       /\ UNCHANGED <<cancel_warnings, calendar, now, reminders, sweep, sweeps, outbox, scheduleCalls>>

\* chat: the rest of _handle_slot_selection.  raised: the Excel export, the
\* confirmation or the form distribution raises and the handler returns its
\* generic error reply; otherwise the reminders are scheduled and the
\* conversation is reset.
ChatAfterBooking(s, raised, fail_at) ==
    LET ctx == conversation_context[s]
        slot == ctx.available_slots[ctx.selected_slot]
    IN /\ ctx.step = "booked"
       /\ IF raised
          THEN /\ conversation_context' = [conversation_context EXCEPT
                      ![s].step = "showing_slots", ![s].reply = "error"]
               /\ UNCHANGED <<reminders, scheduleCalls>>
          ELSE /\ scheduleCalls < MaxScheduleCalls
               /\ ~write_locked
               /\ schedule_appointment_reminders(ctx.appointment_id,
                      SessionPatient[s], slot.date, slot.time, fail_at)
               /\ conversation_context' = [conversation_context EXCEPT
                      ![s].step = "greeting", ![s].reply = "success"]
       /\ UNCHANGED <<cancel_warnings, calendar, now, appointments, doctor_schedules, sweep, sweeps,
                      outbox, bookings, lastBooking>>

\* app.py handle_appointment_confirmation with a selected slot in the session
HandleAppointmentConfirmation(doctor_id, date, time, db_error) ==
    /\ bookings < MaxBookings
    /\ ~write_locked
    /\ book_transaction(
           appointment_row(ApiPatient, doctor_id, date, time,
                           slot_duration_for(TRUE), slot_type_for(TRUE)),
           db_error, "handle_appointment_confirmation")
    /\ UNCHANGED <<cancel_warnings, calendar, now, reminders, conversation_context, sweep, sweeps,
                   outbox, scheduleCalls>>

\* DatabaseManager.book_appointment(patient_id, doctor_id, date, time)
BookAppointment(doctor_id, date, time, db_error) ==
    /\ bookings < MaxBookings
    /\ ~write_locked
    /\ book_transaction(
           appointment_row(ApiPatient, doctor_id, date, time, 30, "Regular"),
           db_error, "book_appointment")
    /\ UNCHANGED <<cancel_warnings, calendar, now, reminders, conversation_context, sweep, sweeps,
                   outbox, scheduleCalls>>

\* a direct call of AutomatedReminderSystem.schedule_appointment_reminders
\* with the data of an appointment of the table
ScheduleAppointmentReminders(appointment_id, fail_at) ==
    /\ appointment_id \in 1..Len(appointments)
    /\ scheduleCalls < MaxScheduleCalls
    /\ ~write_locked
    /\ schedule_appointment_reminders(appointment_id,
           appointments[appointment_id].patient_id,
           appointments[appointment_id].appointment_date,
           appointments[appointment_id].appointment_time, fail_at)
    /\ UNCHANGED <<cancel_warnings, calendar, now, appointments, doctor_schedules, conversation_context,
                   sweep, sweeps, outbox, bookings, lastBooking>>

\* a direct call of EnhancedMedicalAgent._schedule_appointment_reminders_internal
\* (the repository has no caller of it)
ScheduleAppointmentRemindersInternal(appointment_id, fail_at) ==
    /\ appointment_id \in 1..Len(appointments)
    /\ scheduleCalls < MaxScheduleCalls
    /\ ~write_locked
    /\ _schedule_appointment_reminders_internal(appointment_id,
           appointments[appointment_id].patient_id,
           appointments[appointment_id].appointment_date,
           appointments[appointment_id].appointment_time, fail_at)
    /\ UNCHANGED <<cancel_warnings, calendar, now, appointments, doctor_schedules, conversation_context,
                   sweep, sweeps, outbox, bookings, lastBooking>>

\* check_and_send_reminders / send_pending_reminders_now: the SELECT
SweepStart(s) ==
    /\ sweep[s].pc = "idle"
    /\ sweeps < MaxSweeps
    /\ sweeps' = sweeps + 1
    /\ sweep' = [sweep EXCEPT ![s] =
           [pc |-> "loop",
            selected |-> select_pending(reminders, appointments, now),
            queue |-> select_pending(reminders, appointments, now),
            run |-> sweeps + 1, during |-> sweep[other(s)].run,
            marked |-> {}, success |-> TRUE]]
    /\ UNCHANGED <<cancel_warnings, calendar, now, appointments, doctor_schedules, reminders,
                   conversation_context, outbox, bookings, lastBooking,
                   scheduleCalls>>

\* check_and_send_reminders: one turn of the loop, the send and
\* mark_reminder_sent in a connection of its own
PeriodicStep(email_configured, email_ok) ==
    LET s == "periodic"
        reminder_id == Head(sweep[s].queue)
    IN /\ sweep[s].pc = "loop"
       /\ sweep[s].queue # <<>>
       /\ ~write_locked
       /\ outbox' = outbox \cup
              {[reminder_id |-> reminder_id, channel |-> c, sweeper |-> s,
                run |-> sweep[s].run, during |-> sweep[s].during] :
                  c \in channels_periodic(reminders[reminder_id].reminder_type,
                                          email_configured)}
       /\ reminders' = mark_reminder_sent(reminders, reminder_id, now)
       /\ sweep' = [sweep EXCEPT
              ![s].queue = Tail(@),
              ![s].success =
                  delivery_periodic(reminders[reminder_id].reminder_type,
                                    email_configured, email_ok)]
       /\ UNCHANGED <<cancel_warnings, calendar, now, appointments, doctor_schedules,
                      conversation_context, sweeps, bookings, lastBooking,
                      scheduleCalls>>

\* send_pending_reminders_now: one turn of the loop, send_reminder and the
\* UPDATE inside the sweep's transaction
ManualStep(email_ok, sms_ok) ==
    LET s == "manual"
        reminder_id == Head(sweep[s].queue)
    IN /\ sweep[s].pc = "loop"
       /\ sweep[s].queue # <<>>
       /\ outbox' = outbox \cup
              {[reminder_id |-> reminder_id, channel |-> c, sweeper |-> s,
                run |-> sweep[s].run, during |-> sweep[s].during] :
                  c \in channels_manual}
       /\ sweep' = [sweep EXCEPT
              ![s].queue = Tail(@),
              ![s].success = delivery_manual(email_ok, sms_ok),
              ![s].marked = IF truth_of_result(email_ok) \/ truth_of_result(sms_ok)
                            THEN @ \cup {<<reminder_id, now>>}
                            ELSE @]
       /\ UNCHANGED <<cancel_warnings, calendar, now, appointments, doctor_schedules, reminders,
                      conversation_context, sweeps, bookings, lastBooking,
                      scheduleCalls>>

\* the loop is over: the sweep returns (the manual sweep commits)
SweepEnd(s) ==
    /\ sweep[s].pc = "loop"
    /\ sweep[s].queue = <<>>
    /\ reminders' = IF s = "manual"
                    THEN commit_marked(reminders, sweep[s].marked)
                    ELSE reminders
    /\ sweep' = [sweep EXCEPT ![s] = idle_sweep]
    /\ UNCHANGED <<cancel_warnings, calendar, now, appointments, doctor_schedules, conversation_context,
                   sweeps, outbox, bookings, lastBooking, scheduleCalls>>

\* app.py, the Cancel button of an appointment listed on the appointments
\* page: the handler shows the warning "Appointment cancelled!" and does
\* nothing else
CancelButton(appointment_id) ==
    /\ appointment_id \in 1..Len(appointments)
    /\ appointment_id \notin cancel_warnings
    /\ cancel_warnings' = cancel_warnings \cup {appointment_id}
    /\ UNCHANGED <<now, appointments, doctor_schedules, reminders,
                   conversation_context, sweep, sweeps, outbox, bookings,
                   lastBooking, scheduleCalls, calendar>>

\* CalendarIntegration.generate_available_slots(doctor_id, start_date,
\* days_ahead); uuid: the state of the random source
GenerateAvailableSlots(doctor_id, start_date, days_ahead, uuid) ==
    /\ calendar' = [calendar EXCEPT
           !.call = [doctor_id |-> doctor_id, start_date |-> start_date,
                     days_ahead |-> days_ahead],
           !.slots = with_slot_ids(
               generate_available_slots(calendar.working_hours, appointments,
                                        today, doctor_id, start_date,
                                        days_ahead),
               uuid)]
    /\ UNCHANGED <<cancel_warnings, now, appointments, doctor_schedules, reminders,
                   conversation_context, sweep, sweeps, outbox, bookings,
                   lastBooking, scheduleCalls>>

\* the booking entry points: the chat flow, the Streamlit handler, the
\* DatabaseManager
BookingNext ==
    \/ \E s \in Sessions, d \in Doctors : ChatListSlots(s, d)
    \/ \E s \in Sessions, n \in 1..MaxSlotNum, e \in BOOLEAN : ChatBook(s, n, e)
    \/ \E s \in Sessions, r \in BOOLEAN, k \in 0..3 : ChatAfterBooking(s, r, k)
    \/ \E d \in Doctors, dt \in ApiDates, t \in ConfirmationTimes, e \in BOOLEAN :
           HandleAppointmentConfirmation(d, dt, t, e)
    \/ \E d \in Doctors, dt \in ApiDates, t \in ApiTimes, e \in BOOLEAN :
           BookAppointment(d, dt, t, e)

\* the scheduling of reminders for the appointments of the DatabaseManager
SchedulingNext ==
    \/ Tick
    \/ \E d \in Doctors, dt \in ApiDates, t \in ApiTimes, e \in BOOLEAN :
           BookAppointment(d, dt, t, e)
    \/ \E a \in 1..MaxBookings, k \in 0..3 : ScheduleAppointmentReminders(a, k)
    \/ \E a \in 1..MaxBookings, k \in 0..3 :
           ScheduleAppointmentRemindersInternal(a, k)

\* the dispatcher sweeps over the reminders of booked appointments
SweepNext ==
    \/ Tick
    \/ \E dt \in ApiDates : BookAppointment("D1", dt, SweepApiTime, FALSE)
    \/ \E a \in 1..MaxBookings, k \in 0..3 : ScheduleAppointmentReminders(a, k)
    \/ \E s \in Sweepers : SweepStart(s)
    \/ \E c \in BOOLEAN, ok \in BOOLEAN : PeriodicStep(c, ok)
    \/ \E ok1 \in BOOLEAN, ok2 \in BOOLEAN : ManualStep(ok1, ok2)
    \/ \E s \in Sweepers : SweepEnd(s)

\* the calls of the slot grid generator
CalendarNext ==
    \E d \in Doctors, sd \in CalendarStartDates, n \in CalendarDaysAhead,
       u \in Uuids : GenerateAvailableSlots(d, sd, n, u)

\* the appointments page and what follows a cancellation: bookings, the
\* Cancel button, the scheduling of reminders and the dispatcher sweeps
CancelNext ==
    \/ \E dt \in ApiDates : BookAppointment("D1", dt, SweepApiTime, FALSE)
    \/ \E a \in 1..MaxBookings : CancelButton(a)
    \/ \E a \in 1..MaxBookings, k \in 0..3 : ScheduleAppointmentReminders(a, k)
    \/ \E s \in Sweepers : SweepStart(s)
    \/ \E c \in BOOLEAN, ok \in BOOLEAN : PeriodicStep(c, ok)
    \/ \E ok1 \in BOOLEAN, ok2 \in BOOLEAN : ManualStep(ok1, ok2)
    \/ \E s \in Sweepers : SweepEnd(s)

Next == BookingNext \/ SchedulingNext \/ SweepNext \/ CalendarNext \/ CancelNext

Spec == Init /\ [][Next]_vars

\* the booking entry points alone
SpecBooking == Init /\ [][BookingNext]_vars

\* the scheduling of reminders alone
SpecScheduling == Init /\ [][SchedulingNext]_vars

\* the dispatcher sweeps alone
SpecSweeps == Init /\ [][SweepNext]_vars

\* the slot grid generator called on the tables, clocks and objects of
\* InitCalendar
SpecCalendar == InitCalendar /\ [][CalendarNext]_vars

\* cancellations and the sweeps after them
SpecCancel == Init /\ [][CancelNext]_vars

\* =============================================================== claims
\* helpers of the properties
same_key(a, b) ==
    /\ a.doctor_id = b.doctor_id
    /\ a.appointment_date = b.appointment_date
    /\ a.appointment_time = b.appointment_time

slot_keys(slots) == {<<slots[k].date, slots[k].time>> : k \in 1..Len(slots)}

appointment_key(a) == <<a.appointment_date, a.appointment_time>>

\* C1: no double booking.  In every reachable state there is, for every
\* (doctor_id, date, time), at most one appointment row that is not
\* cancelled.
C1_NoDoubleBooking ==
    \A i, j \in 1..Len(appointments) :
        (/\ i # j
         /\ appointments[i].status # "cancelled"
         /\ appointments[j].status # "cancelled")
        => ~same_key(appointments[i], appointments[j])

\* C2: when a booking call follows a successful booking call for the same
\* (doctor_id, date, time), it fails and leaves the appointments table and
\* the doctor_schedules table as they were.
C2_SecondBookingFails ==
    [][(/\ bookings' = bookings + 1
        /\ lastBooking.ok
        /\ lastBooking'.doctor_id = lastBooking.doctor_id
        /\ lastBooking'.date = lastBooking.date
        /\ lastBooking'.time = lastBooking.time)
       => (/\ ~lastBooking'.ok
           /\ appointments' = appointments
           /\ doctor_schedules' = doctor_schedules)]_vars

\* C3: slot/booking consistency.  For every appointment row that is not
\* cancelled, generate_available_slots(doctor_id, appointment_date, 1) holds
\* no slot with the appointment's (date, time).
C3_BookedSlotNotOffered ==
    \A i \in 1..Len(appointments) :
        appointments[i].status # "cancelled"
        => appointment_key(appointments[i]) \notin
               slot_keys(generate_available_slots(working_hours, appointments, today,
                   appointments[i].doctor_id,
                   appointments[i].appointment_date, 1))

\* C3 witness: an appointment on a slot of the grid, which the generator
\* offers for the empty table and no longer offers, other slots of the day
\* still being offered
C3_Witness ==
    \E i \in 1..Len(appointments) :
        /\ appointment_key(appointments[i]) \in
               slot_keys(generate_available_slots(working_hours, <<>>, today,
                   appointments[i].doctor_id,
                   appointments[i].appointment_date, 1))
        /\ appointment_key(appointments[i]) \notin
               slot_keys(generate_available_slots(working_hours, appointments, today,
                   appointments[i].doctor_id,
                   appointments[i].appointment_date, 1))
        /\ generate_available_slots(working_hours, appointments, today,
               appointments[i].doctor_id,
               appointments[i].appointment_date, 1) # <<>>

\* C4: an appointment row for (doctor_id, date, time) exists if and only if
\* the doctor_schedules row of that key is marked unavailable.
C4_AppointmentIffSlotUnavailable ==
    /\ \A i \in 1..Len(appointments) :
           \E k \in 1..Len(doctor_schedules) :
               /\ doctor_schedules[k].doctor_id = appointments[i].doctor_id
               /\ doctor_schedules[k].date = appointments[i].appointment_date
               /\ doctor_schedules[k].time = appointments[i].appointment_time
               /\ ~doctor_schedules[k].is_available
    /\ \A k \in 1..Len(doctor_schedules) :
           ~doctor_schedules[k].is_available
           => \E i \in 1..Len(appointments) :
                  /\ doctor_schedules[k].doctor_id = appointments[i].doctor_id
                  /\ doctor_schedules[k].date = appointments[i].appointment_date
                  /\ doctor_schedules[k].time = appointments[i].appointment_time

\* the reminders of an appointment are exactly three, one of each type, all
\* pending
three_pending_reminders(rems, appointment_id) ==
    LET of_appointment == {i \in 1..Len(rems) :
                              rems[i].appointment_id = appointment_id}
    IN /\ Cardinality(of_appointment) = 3
       /\ \A t \in Range(ReminderTypes) :
              \E i \in of_appointment : rems[i].reminder_type = t
       /\ \A i \in of_appointment : rems[i].status = "pending"

\* C5: reminder completeness.  When the chat slot-selection handler returns
\* its confirmation, and when the Streamlit confirmation handler has booked,
\* the new appointment has exactly three reminders, one of each type, all
\* pending.
C5_ThreeRemindersAfterBooking ==
    [][/\ \A s \in Sessions :
              (/\ conversation_context[s].step = "booked"
               /\ conversation_context'[s].step = "greeting")
              => three_pending_reminders(reminders',
                     conversation_context[s].appointment_id)
       /\ (/\ bookings' = bookings + 1
           /\ lastBooking'.via = "handle_appointment_confirmation"
           /\ lastBooking'.ok)
          => three_pending_reminders(reminders', lastBooking'.appointment_id)
      ]_vars

\* the reminder policy of the documentation: how long before the appointment
\* each reminder fires, in seconds
policy_offset(reminder_type) ==
    IF reminder_type = "initial"
    THEN 3 * DaySeconds
    ELSE IF reminder_type = "follow_up_1" THEN DaySeconds ELSE 2 * HourSeconds

\* C6: every reminder row has scheduled_time = T - 3 days (initial),
\* T - 1 day (follow_up_1) or T - 2 hours (follow_up_2), T being the
\* date/time of its appointment.
C6_FireTimesRelativeToAppointment ==
    \A i \in 1..Len(reminders) :
        LET a == appointments[reminders[i].appointment_id]
        IN reminders[i].scheduled_time =
               parse_appointment_datetime(a.appointment_date, a.appointment_time)
               - policy_offset(reminders[i].reminder_type)

\* C7: reminder scheduling is all-or-nothing.  A call that schedules the
\* reminders of an appointment adds three rows to the reminders table or
\* none, and leaves the rows that were there as they were.
C7_SchedulingAllOrNothing ==
    [][scheduleCalls' = scheduleCalls + 1
       => /\ Len(reminders') - Len(reminders) \in {0, 3}
          /\ SubSeq(reminders', 1, Len(reminders)) = reminders]_vars

\* C7 witness: two scheduling calls were made for appointments whose time
\* parses, one persisted its three rows and the other, failing at an INSERT,
\* none
C7_Witness ==
    /\ scheduleCalls = 2
    /\ Len(reminders) = 3
    /\ \A i \in 1..Len(appointments) :
           strptime_HM(appointments[i].appointment_time) >= 0

\* C8: there is at most one reminder row per (appointment_id, reminder_type).
C8_OneReminderPerType ==
    \A i, j \in 1..Len(reminders) :
        (/\ reminders[i].appointment_id = reminders[j].appointment_id
         /\ reminders[i].reminder_type = reminders[j].reminder_type)
        => i = j

\* C9: at-most-once delivery across sweeps.  When a sweep runs after another
\* (it selected its rows while the earlier one was not in progress), no
\* reminder delivered by the earlier sweep is delivered by the later one.
C9_AtMostOnceAcrossSweeps ==
    \A e1, e2 \in outbox :
        (/\ e1.reminder_id = e2.reminder_id
         /\ e1.run < e2.run)
        => e2.during = e1.run

\* C9 witness: the first sweep delivered a reminder and has returned, the
\* second sweep started after it, at the same time of the clock, and has gone
\* through its rows, the reminder being delivered once
C9_Witness ==
    \E s \in Sweepers, e \in outbox :
        /\ sweep[s].pc = "loop"
        /\ sweep[s].run = 2
        /\ sweep[s].during = 0
        /\ sweep[s].queue = <<>>
        /\ e.run = 1
        /\ reminders[e.reminder_id].sent_time = now
        /\ \A e2 \in outbox : e2.reminder_id = e.reminder_id => e2.run = 1

\* C10: a sweep delivers only due reminders.  A reminder whose
\* scheduled_time is later than the clock is not sent and, if pending,
\* stays pending.
C10_OnlyDueDelivered ==
    [][\A i \in 1..Len(reminders) :
           reminders[i].scheduled_time > now
           => /\ \A e \in outbox' \ outbox : e.reminder_id # i
              /\ reminders[i].status = "pending"
                 => reminders'[i].status = "pending"]_vars

\* C11: overdue catch-up.  The initial and follow_up_1 reminders scheduled
\* for an appointment that starts within a day, three hours ahead in
\* particular, are overdue when they are created (scheduled_time <= clock),
\* and a sweep that starts selects every pending reminder that is overdue,
\* so that both are sent in that sweep.
C11_OverdueCatchUp ==
    [][/\ scheduleCalls' = scheduleCalls + 1
          => \A i \in (Len(reminders) + 1)..Len(reminders') :
                 LET a == appointments[reminders'[i].appointment_id]
                     T == parse_appointment_datetime(a.appointment_date,
                                                     a.appointment_time)
                 IN (/\ reminders'[i].reminder_type \in {"initial", "follow_up_1"}
                     /\ T - DaySeconds <= now
                     /\ now <= T)
                    => reminders'[i].scheduled_time <= now
       /\ \A s \in Sweepers :
              (sweep[s].pc = "idle" /\ sweep'[s].pc = "loop")
              => \A i \in 1..Len(reminders) :
                     (/\ reminders[i].status = "pending"
                      /\ reminders[i].scheduled_time <= now)
                     => i \in Range(sweep'[s].queue)
      ]_vars

\* a step in which sweep s makes the delivery attempt of the first row of
\* its queue
attempt_step(s) ==
    /\ sweep[s].pc = "loop"
    /\ sweep[s].queue # <<>>
    /\ sweep'[s].queue = Tail(sweep[s].queue)

\* the row of reminder i as sweep s has written it after the step: in the
\* table for the periodic sweep, in its transaction for the manual sweep
row_written(s, i) ==
    IF s = "manual"
    THEN commit_marked(reminders', sweep'[s].marked)[i]
    ELSE reminders'[i]

\* C12: per-reminder outcome of a sweep.  After the delivery attempt of a
\* reminder the sweep has written status sent, with sent_time set, if and
\* only if the delivery succeeded, and status failed with an error message in
\* response when it did not.
C12_OutcomeFollowsDelivery ==
    [][\A s \in Sweepers :
           attempt_step(s)
           => LET i == Head(sweep[s].queue)
              IN /\ (row_written(s, i).status = "sent"
                     /\ row_written(s, i).sent_time >= 0)
                    <=> sweep'[s].success
                 /\ ~sweep'[s].success
                    => /\ row_written(s, i).status = "failed"
                       /\ row_written(s, i).response # ""
      ]_vars

\* C13: sent and failed are terminal.  Once a reminder has status sent or
\* failed no step changes its row, delivers it again or selects it for a
\* sweep, and the only changes of status are pending to sent and pending to
\* failed.
C13_SentFailedTerminal ==
    [][\A i \in 1..Len(reminders) :
           /\ reminders[i].status \in {"sent", "failed"}
              => /\ reminders'[i] = reminders[i]
                 /\ {e \in outbox' \ outbox : e.reminder_id = i} = {}
                 /\ \A s \in Sweepers :
                        (sweep[s].pc = "idle" /\ sweep'[s].pc = "loop")
                        => i \notin Range(sweep'[s].queue)
           /\ reminders'[i].status # reminders[i].status
              => /\ reminders[i].status = "pending"
                 /\ reminders'[i].status \in {"sent", "failed"}
      ]_vars

C15_NoSuccessMeansFailed ==
    [][\A s \in Sweepers :
           (sweep[s].pc = "loop" /\ sweep'[s].pc = "idle")
           => /\ \A i \in Range(sweep[s].selected) :
                     reminders'[i].status \in {"sent", "failed"}
              /\ (sweep[s].selected # <<>> /\ ~sweep[s].success)
                 => reminders'[sweep[s].selected[Len(sweep[s].selected)]].status
                        = "failed"
      ]_vars

\* C16: idempotent grid generation.  A call of generate_available_slots
\* with the doctor_id, start_date and days_ahead of the call before it, no
\* booking having been made in between, returns the sequence the call before
\* returned: the same length and equal slot records at every position.
C16_IdempotentGeneration ==
    [][(calendar.call # no_call /\ calendar'.call = calendar.call)
       => /\ Len(calendar'.slots) = Len(calendar.slots)
          /\ \A i \in 1..Len(calendar.slots) :
                 calendar'.slots[i] = calendar.slots[i]
      ]_vars

\* the start of a slot in minutes of the day, read from its 'time'
slot_minutes(slot) == strptime_HM(slot.time)

\* slot a is earlier than slot b in the order of (date, time)
slot_before(a, b) ==
    \/ a.date < b.date
    \/ a.date = b.date /\ slot_minutes(a) < slot_minutes(b)

\* the steps of slot_duration + buffer_time that start inside the working day
steps_per_day(hours) ==
    (hours.end_time - hours.start_time) \div (slot_duration + buffer_time) + 1

\* C17: the sequence generate_available_slots returns is strictly
\* increasing in (date, time), so that no (date, time) appears twice, and
\* holds at most days_ahead times the steps of one working day.
C17_StrictlyIncreasingBounded ==
    calendar.call # no_call
    => /\ \A i \in 1..Len(calendar.slots) : slot_minutes(calendar.slots[i]) >= 0
       /\ \A i \in 1..(Len(calendar.slots) - 1) :
              slot_before(calendar.slots[i], calendar.slots[i + 1])
       /\ Len(calendar.slots)
              <= calendar.call.days_ahead * steps_per_day(calendar.working_hours)

\* C17 witness: a returned sequence that goes over two days and has a slot
\* of the grid taken out by a booking
C17_Witness ==
    /\ calendar.call.days_ahead = 2
    /\ \E i \in 1..(Len(calendar.slots) - 1) :
           calendar.slots[i].date + 1 = calendar.slots[i + 1].date
    /\ \E a \in Range(appointments) :
           /\ a.doctor_id = calendar.call.doctor_id
           /\ a.appointment_date = calendar.slots[1].date
           /\ a.appointment_time = "09:00"
           /\ calendar.slots[1].time = "09:45"

\* the slots of the returned sequence that are on the given date
slots_on(date) ==
    SelectSeq(calendar.slots, LAMBDA slot : slot.date = date)

\* C18: lunch handling.  With working hours 09:00-17:00, lunch 12:00-13:00,
\* 30-minute slots and a 15-minute buffer, on a working day of the returned
\* sequence for which the doctor has no booking, the first slot starts at
\* 09:00, no slot starts in [12:00, 13:00) and a slot starts at 13:00.
C18_LunchHandling ==
    (/\ calendar.working_hours = working_hours
     /\ <<slot_duration, buffer_time>> = <<30, 15>>)
    => \A date \in {slot.date : slot \in Range(calendar.slots)} :
           (\A a \in Range(appointments) :
                ~(/\ a.doctor_id = calendar.call.doctor_id
                  /\ a.appointment_date = date))
           => /\ slots_on(date)[1].time = "09:00"
              /\ \A slot \in Range(slots_on(date)) :
                     ~(/\ 12 * 60 <= slot_minutes(slot)
                       /\ slot_minutes(slot) < 13 * 60)
              /\ \E slot \in Range(slots_on(date)) : slot.time = "13:00"

\* C18 witness: a sequence returned under the working hours of __init__
\* with a day without bookings whose slots go from before lunch to after it
C18_Witness ==
    /\ calendar.working_hours = working_hours
    /\ appointments = <<>>
    /\ \E i \in 1..(Len(calendar.slots) - 1) :
           /\ calendar.slots[i].date = calendar.slots[i + 1].date
           /\ calendar.slots[i].time = "11:15"
           /\ calendar.slots[i + 1].time = "13:00"

\* C19: empty results.  generate_available_slots returns the empty
\* sequence when days_ahead is 0, when no day of the range is a working
\* weekday (all are Saturdays or Sundays), and when the lunch window covers
\* the whole working day.
C19_EmptyResults ==
    calendar.call # no_call
    => /\ calendar.call.days_ahead = 0 => calendar.slots = <<>>
       /\ (\A k \in 0..(calendar.call.days_ahead - 1) :
               (calendar.call.start_date + k) % 7 \in {5, 6})
          => calendar.slots = <<>>
       /\ (/\ calendar.working_hours.lunch_start
                  <= calendar.working_hours.start_time
           /\ calendar.working_hours.lunch_end
                  >= calendar.working_hours.end_time)
          => calendar.slots = <<>>

\* C19 witness: a call over three days from a working day that is not past,
\* on an object whose lunch window is the whole working day, has returned
\* the empty sequence
C19_Witness ==
    /\ calendar.call.days_ahead = MaxDaysAhead
    /\ calendar.call.start_date = today
    /\ calendar.call.start_date % 7 = 0
    /\ calendar.working_hours.lunch_start = calendar.working_hours.start_time
    /\ calendar.working_hours.lunch_end = calendar.working_hours.end_time
    /\ calendar.slots = <<>>

\* C20: no past slot.  Every slot generate_available_slots returns has a
\* date that is not before today, and no returned slot of today starts
\* before the time of the clock at the call.
C20_NoPastSlot ==
    \A slot \in Range(calendar.slots) :
        /\ slot.date >= today
        /\ slot.date = today
           => slot_minutes(slot) * 60 >= now % DaySeconds

\* a slot a doctor can be booked on: a time of day that parses, inside the
\* working hours with its duration, outside lunch, on a working weekday, not
\* on a past date
valid_slot(date, time, today_date) ==
    /\ strptime_HM(time) >= start_time
    /\ strptime_HM(time) + slot_duration <= end_time
    /\ ~(lunch_start <= strptime_HM(time) /\ strptime_HM(time) < lunch_end)
    /\ weekday(date) \in working_days
    /\ date >= today_date

\* C21: a booking call for a slot outside the working hours, on a
\* non-working weekday, inside lunch or on a past date fails and writes
\* nothing: appointments, doctor_schedules and reminders are as before.
C21_InvalidSlotRejected ==
    [][(/\ bookings' = bookings + 1
        /\ ~valid_slot(lastBooking'.date, lastBooking'.time, today))
       => /\ ~lastBooking'.ok
          /\ appointments' = appointments
          /\ doctor_schedules' = doctor_schedules
          /\ reminders' = reminders
      ]_vars

\* C22: cancellation releases the slot.  An appointment the page has
\* reported as cancelled has status cancelled and, its slot being valid and
\* held by no other appointment that is not cancelled, its (date, time) is
\* offered again by generate_available_slots for its doctor.
C22_CancellationReleasesSlot ==
    \A i \in cancel_warnings :
        /\ appointments[i].status = "cancelled"
        /\ (/\ valid_slot(appointments[i].appointment_date,
                          appointments[i].appointment_time, today)
            /\ \A j \in 1..Len(appointments) :
                   (j # i /\ same_key(appointments[i], appointments[j]))
                   => appointments[j].status = "cancelled")
           => appointment_key(appointments[i]) \in
                  slot_keys(generate_available_slots(working_hours,
                      appointments, today, appointments[i].doctor_id,
                      appointments[i].appointment_date, 1))

\* the appointment of reminder i is cancelled: it has status cancelled or the
\* page has reported it as cancelled
appointment_cancelled(i) ==
    \/ appointments[reminders[i].appointment_id].status = "cancelled"
    \/ reminders[i].appointment_id \in cancel_warnings

\* C23: reminders of a cancelled appointment are suppressed.  A sweep that
\* starts does not select a reminder whose appointment is cancelled, and no
\* step delivers such a reminder to the Notifier.
C23_CancelledNotReminded ==
    [][/\ \A s \in Sweepers :
              (sweep[s].pc = "idle" /\ sweep'[s].pc = "loop")
              => \A i \in Range(sweep'[s].queue) : ~appointment_cancelled(i)
       /\ \A e \in outbox' \ outbox : ~appointment_cancelled(e.reminder_id)
      ]_vars

\* C24: a failure of the reminder scheduling after a booking leaves the
\* booking intact.  When the chat handler's scheduling call adds no
\* reminder, the appointment row of the booking is in the table as it was,
\* doctor_schedules is as it was, and the slot of the appointment is still
\* not offered by generate_available_slots.
C24_SchedulingFailureKeepsBooking ==
    [][\A s \in Sessions :
           (/\ conversation_context[s].step = "booked"
            /\ conversation_context'[s].step = "greeting"
            /\ reminders' = reminders)
           => LET a == conversation_context[s].appointment_id
              IN /\ a \in 1..Len(appointments')
                 /\ appointments' = appointments
                 /\ doctor_schedules' = doctor_schedules
                 /\ appointment_key(appointments'[a]) \notin
                        slot_keys(generate_available_slots(working_hours,
                            appointments', today, appointments'[a].doctor_id,
                            appointments'[a].appointment_date, 1))
      ]_vars

\* C24 witness: the chat handler has booked an appointment, its scheduling
\* call has failed at an INSERT and the handler has returned; the appointment
\* is in the table and has no reminder
C24_Witness ==
    \E s \in Sessions :
        /\ conversation_context[s].step = "greeting"
        /\ conversation_context[s].reply = "success"
        /\ conversation_context[s].appointment_id \in 1..Len(appointments)
        /\ scheduleCalls = 1
        /\ reminders = <<>>

\* C25: day grid shape.  Every slot of the returned sequence starts at or
\* after start_time and ends, slot_duration later, at or before end_time;
\* two consecutive slots of one day start at least slot_duration +
\* buffer_time apart, in the returned sequence and in the candidates of the
\* day before the booked slots are taken out.
C25_DayGridShape ==
    calendar.call # no_call
    => /\ \A slot \in Range(calendar.slots) :
              /\ slot_minutes(slot) >= calendar.working_hours.start_time
              /\ slot_minutes(slot) + slot_duration
                     <= calendar.working_hours.end_time
       /\ \A i \in 1..(Len(calendar.slots) - 1) :
              calendar.slots[i].date = calendar.slots[i + 1].date
              => slot_minutes(calendar.slots[i + 1])
                     - slot_minutes(calendar.slots[i])
                     >= slot_duration + buffer_time
       /\ LET candidates == _generate_day_slots(calendar.working_hours,
                                                calendar.call.start_date, {})
          IN /\ \A i \in 1..Len(candidates) :
                    /\ slot_minutes(candidates[i])
                           >= calendar.working_hours.start_time
                    /\ slot_minutes(candidates[i]) + slot_duration
                           <= calendar.working_hours.end_time
             /\ \A i \in 1..(Len(candidates) - 1) :
                    slot_minutes(candidates[i + 1]) - slot_minutes(candidates[i])
                        >= slot_duration + buffer_time

\* C25 witness: a returned day that has all its candidates, from the first
\* step at start_time to the last that fits before end_time
C25_Witness ==
    /\ calendar.call.days_ahead = 1
    /\ Len(calendar.slots) >= 2
    /\ calendar.slots = with_slot_ids(
           _generate_day_slots(calendar.working_hours,
                               calendar.call.start_date, {}),
           calendar.slots[1].slot_id[1])
    /\ slot_minutes(calendar.slots[1]) = calendar.working_hours.start_time
    /\ slot_minutes(calendar.slots[Len(calendar.slots)]) + slot_duration
           + buffer_time + slot_duration > calendar.working_hours.end_time

\* C26: at-most-once delivery under interleaving.  Also when two sweeps
\* overlap, a reminder is delivered to the Notifier by one sweep at most:
\* all calls to the Notifier for one reminder come from the same run.
C26_AtMostOnceInterleaved ==
    \A e1, e2 \in outbox :
        e1.reminder_id = e2.reminder_id => e1.run = e2.run

\* the channels a stored reminder_method names
method_channels(reminder_method) ==
    IF reminder_method = "both"
    THEN {"email", "sms"}
    ELSE IF reminder_method \in {"email", "sms"} THEN {reminder_method} ELSE {}

\* C27: the channels of a delivery are those of the stored reminder_method.
\* When a sweep delivers a reminder with success, the calls it makes to the
\* Notifier for it are on exactly the channels its reminder_method names,
\* whatever its reminder_type.
C27_ChannelsFollowMethod ==
    [][\A s \in Sweepers :
           (attempt_step(s) /\ sweep'[s].success)
           => {e.channel : e \in {x \in outbox' \ outbox :
                                    x.reminder_id = Head(sweep[s].queue)}}
                  = method_channels(
                        reminders[Head(sweep[s].queue)].reminder_method)
      ]_vars

\* the rows of a table for a (doctor_id, date, time)
rows_of_key(appts, doctor_id, date, time) ==
    {i \in 1..Len(appts) : /\ appts[i].doctor_id = doctor_id
                           /\ appts[i].appointment_date = date
                           /\ appts[i].appointment_time = time}

C29_ReplyMatchesState ==
    [][\A s \in Sessions :
           conversation_context'[s] # conversation_context[s]
           => /\ conversation_context'[s].reply = "error"
                 => conversation_context'[s].appointment_id
                        \notin 1..Len(appointments')
              /\ conversation_context'[s].reply = "success"
                 => /\ conversation_context'[s].appointment_id
                           \in 1..Len(appointments')
                    /\ three_pending_reminders(reminders',
                           conversation_context'[s].appointment_id)
      ]_vars

\* C30: no generated slot overlaps the lunch window.  Under the working
\* hours of CalendarIntegration.__init__ every returned slot ends, slot_duration
\* after its start, at or before lunch_start, or starts at or after lunch_end.
C30_NoLunchOverlap ==
    calendar.working_hours = working_hours
    => \A slot \in Range(calendar.slots) :
           \/ slot_minutes(slot) + slot_duration
                  <= calendar.working_hours.lunch_start
           \/ slot_minutes(slot) >= calendar.working_hours.lunch_end

\* C30 witness: a sequence returned under the working hours of __init__ that
\* holds the last slot before lunch, whose next step falls into the lunch
\* window, and later slots of the same day
C30_Witness ==
    /\ calendar.working_hours = working_hours
    /\ \E i \in 1..(Len(calendar.slots) - 1) :
           /\ slot_minutes(calendar.slots[i]) + slot_duration + buffer_time
                  = calendar.working_hours.lunch_start
           /\ calendar.slots[i + 1].date = calendar.slots[i].date
           /\ slot_minutes(calendar.slots[i + 1])
                  >= calendar.working_hours.lunch_end

====
